---- MODULE Spec2Model ----
(* Idempotent delivery pipeline of job_scraper.py: the sent-jobs ledger     *)
(* (Upstash Redis key with a local JSON file as fallback), the filter       *)
(* against the ledger, the size-aware batcher and the send/commit loop.     *)
(* Also two overlapping invocations of its main, and the older             *)
(* single-source entry point app/bot/main.py with its sent_jobs.txt.        *)
EXTENDS Integers, Sequences, FiniteSets, TLC

\* ------------------------------------------------------------------ bounds
MaxJobs == 4        \* longest posting list handed to the batcher (SpecBatch)
MaxScrape == 3      \* most postings the two sources return in one run (Spec)
MaxRuns == 2        \* number of consecutive runs of main (Spec)
MaxRaceScrape == 2  \* most postings a run scrapes when two runs overlap (SpecRace)

\* ------------------------------------------------------- program constants
MessageLimit == 3800      \* job_scraper.py:328
NewHeaderFixed == 34      \* "<b>🚀 New Job Listings from :</b>\n\n"
MoreHeaderFixed == 22     \* "<b>🚀 More from :</b>\n\n"
TitleFixed == 15          \* "<b>Title:</b> \n"
CompanyFixed == 17        \* "<b>Company:</b> \n"
DetailsFixed == 24        \* "<b>Details:</b> <i></i>\n"
LinkFixed == 40           \* "<b>Link:</b> <a href=''>Apply Here</a>\n\n"
SentinelLen == 26         \* "No new job listings found."
StripTail == 2            \* the trailing "\n\n" removed by str.strip()

\* ------------------------------------------------------------------- texts
\* Texts are symbolic; TextLen gives the number of characters each stands for.
TextLen(s) ==
    CASE s = "" -> 0
      [] s = "small" -> 10
      [] s = "medium" -> 1770
      [] s = "large" -> 1900
      [] s = "near" -> 3715
      [] s = "huge" -> 3900
      [] s = "Acme" -> 4
      [] s = "Not specified" -> 13
      [] s = "Lagos" -> 5
      [] s = "Jobberman" -> 9
      [] s = "Careers24" -> 9
      [] OTHER -> 20          \* links

Posting(src, t, c, d, l) ==
    [source |-> src, title |-> t, company |-> c, details |-> d, link |-> l]

\* Postings the batcher is exercised on.
BatchPostings ==
    { Posting("Jobberman", "small", "Acme", "Lagos", "L1"),
      Posting("Jobberman", "medium", "Acme", "", "L2"),
      Posting("Jobberman", "near", "", "", "L2"),
      Posting("Jobberman", "huge", "Acme", "", "L2"),
      Posting("Careers24", "small", "Not specified", "Lagos", "L1"),
      Posting("Careers24", "medium", "Not specified", "", "L3") }

\* Postings the two scrapers can return in a pipeline run.
JobbermanPostings ==
    { Posting("Jobberman", "large", "Acme", "Lagos", "L1"),
      Posting("Jobberman", "medium", "Acme", "", "L2") }
Careers24Postings ==
    { Posting("Careers24", "medium", "Not specified", "", "L1"),
      Posting("Careers24", "small", "Not specified", "Lagos", "L3") }

SeqsUpTo(S, n) == UNION { [1..k -> S] : k \in 0..n }

Range(s) == { s[i] : i \in DOMAIN s }

\* ----------------------------------------------------------------- batcher
\* A message under construction: which header it opens with, and the posting
\* blocks appended to it so far.
Message(kind, src, jobs) == [kind |-> kind, source |-> src, jobs |-> jobs]

SentinelMessage == Message("none", "", <<>>)

HeaderLen(m) ==
    CASE m.kind = "new" -> NewHeaderFixed + TextLen(m.source)
      [] m.kind = "more" -> MoreHeaderFixed + TextLen(m.source)
      [] OTHER -> SentinelLen

\* len(job_message) for one posting
BlockLen(job) ==
    TitleFixed + TextLen(job.title)
    + (IF job.company # "" /\ job.company # "Not specified"
         THEN CompanyFixed + TextLen(job.company) ELSE 0)
    + (IF job.details # "" THEN DetailsFixed + TextLen(job.details) ELSE 0)
    + LinkFixed + TextLen(job.link)

RECURSIVE BlocksLen(_)
BlocksLen(jobs) ==
    IF jobs = <<>> THEN 0 ELSE BlockLen(Head(jobs)) + BlocksLen(Tail(jobs))

\* len(message) of the running, unstripped text
RawLen(m) == HeaderLen(m) + BlocksLen(m.jobs)

\* len(message.strip()): headers and blocks end in "\n\n", the sentinel does not
StripLen(m) == IF m.kind = "none" THEN SentinelLen ELSE RawLen(m) - StripTail

\* keys of jobs_by_source in insertion order
RECURSIVE SourceOrder(_, _)
SourceOrder(jobs, seen) ==
    IF jobs = <<>> THEN seen
    ELSE SourceOrder(Tail(jobs),
                     IF Head(jobs).source \in Range(seen) THEN seen
                     ELSE Append(seen, Head(jobs).source))

SourceJobsUngrouped(jobs, src) == jobs

\* jobs_by_source[source]
RECURSIVE SourceJobs(_, _)
SourceJobs(jobs, src) ==
    IF jobs = <<>> THEN <<>>
    ELSE IF Head(jobs).source = src
         THEN <<Head(jobs)>> \o SourceJobs(Tail(jobs), src)
         ELSE SourceJobs(Tail(jobs), src)

ExceedsBlockOnly(message, job) == BlockLen(job) > MessageLimit

\* the test of line 328
Exceeds(message, job) == RawLen(message) + BlockLen(job) > MessageLimit

ContinuationWithoutJob(message, job) == Message("more", message.source, <<>>)

\* line 330: the message opened after sealing the current one
Continuation(message, job) == Message("more", message.source, <<job>>)

\* the inner loop over source_jobs, then the trailing append
RECURSIVE PackSource(_, _, _)
PackSource(source_jobs, message, out) ==
    IF source_jobs = <<>>
    THEN IF StripLen(message) > 0 THEN Append(out, message) ELSE out
    ELSE LET job == Head(source_jobs) IN
         IF Exceeds(message, job)
         THEN PackSource(Tail(source_jobs),
                         Continuation(message, job),
                         Append(out, message))
         ELSE PackSource(Tail(source_jobs),
                         Message(message.kind, message.source,
                                 Append(message.jobs, job)),
                         out)

\* the outer loop over jobs_by_source.items()
RECURSIVE PackAll(_, _, _)
PackAll(sources, jobs, out) ==
    IF sources = <<>> THEN out
    ELSE PackAll(Tail(sources), jobs,
                 PackSource(SourceJobs(jobs, Head(sources)),
                            Message("new", Head(sources), <<>>), out))

format_jobs_for_telegram(jobs) ==
    IF jobs = <<>> THEN <<SentinelMessage>>
    ELSE PackAll(SourceOrder(jobs, <<>>), jobs, <<>>)


\* ------------------------------------------------------------------ ledger
EmptyLedger == [k \in {} |-> 0]

\* What a store (the Redis key or sent_jobs.json) holds.
Stored(ledger) == [kind |-> "json", data |-> ledger]
Absent == [kind |-> "absent", data |-> EmptyLedger]
Corrupt == [kind |-> "corrupt", data |-> EmptyLedger]
\* a file whose open() or read() raises something other than
\* JSONDecodeError or FileNotFoundError (no permission, undecodable bytes)
Unreadable == [kind |-> "unreadable", data |-> EmptyLedger]

\* result of a load: the ledger returned, or an exception leaving the call
Returned(ledger) == [raised |-> FALSE, data |-> ledger]
Raised == [raised |-> TRUE, data |-> EmptyLedger]

\* the ledger a later load can get back from a store
PersistedLedger(store) ==
    IF store.kind = "json" THEN store.data ELSE EmptyLedger

Links(jobs) == { jobs[i].link : i \in DOMAIN jobs }

add_sent_job_fresh(sent, job_link, source, title, now) ==
    [k \in {job_link} |->
        [source |-> source, title |-> title, sent_date |-> now]]

add_sent_job(sent, job_link, source, title, now) ==
    [k \in DOMAIN sent \cup {job_link} |->
        IF k = job_link
        THEN [source |-> source, title |-> title, sent_date |-> now]
        ELSE sent[k]]

\* the loop of lines 372-373
RECURSIVE AddAll(_, _, _)
AddAll(sent, jobs, now) ==
    IF jobs = <<>> THEN sent
    ELSE AddAll(add_sent_job(sent, Head(jobs).link, Head(jobs).source,
                             Head(jobs).title, now),
                Tail(jobs), now)

\* pingOk: the PING request answered PONG
test_redis_connection(configured, pingOk) == configured /\ pingOk

load_sent_jobs_fallback(file) ==
    CASE file.kind = "json" -> Returned(file.data)
      [] file.kind = "unreadable" -> Raised
      [] OTHER -> Returned(EmptyLedger)

\* probeUp: test_redis_connection() returned True; getOk: the GET request
\* returned a response (not None).
load_sent_jobs(key, file, probeUp, getOk) ==
    IF ~probeUp THEN load_sent_jobs_fallback(file)
    ELSE IF ~getOk \/ key.kind = "absent" THEN Returned(EmptyLedger)
    ELSE IF key.kind = "json" THEN Returned(key.data)
    ELSE load_sent_jobs_fallback(file)

\* fileResult: "ok", "open_fails" (open() raises, file untouched) or
\* "write_fails" (open() truncated the file, json.dump raised).
save_sent_jobs_fallback(file, data, fileResult) ==
    CASE fileResult = "ok" -> [file |-> Stored(data), ok |-> TRUE]
      [] fileResult = "open_fails" -> [file |-> file, ok |-> FALSE]
      [] OTHER -> [file |-> Corrupt, ok |-> FALSE]

\* setOk: the SET request answered {"result": "OK"}.
\* path: the stores the call tried to write, in order.
save_sent_jobs_local_first(key, file, data, probeUp, setOk, fileResult) ==
    LET r == save_sent_jobs_fallback(file, data, fileResult) IN
    IF r.ok \/ ~probeUp
    THEN [key |-> key, file |-> r.file, ok |-> r.ok, path |-> <<"local">>]
    ELSE [key |-> IF setOk THEN Stored(data) ELSE key, file |-> r.file,
          ok |-> setOk, path |-> <<"local", "remote">>]

save_sent_jobs(key, file, data, probeUp, setOk, fileResult) ==
    IF ~probeUp
    THEN LET r == save_sent_jobs_fallback(file, data, fileResult)
         IN  [key |-> key, file |-> r.file, ok |-> r.ok, path |-> <<"local">>]
    ELSE IF setOk
         THEN [key |-> Stored(data), file |-> file, ok |-> TRUE,
               path |-> <<"remote">>]
         ELSE LET r == save_sent_jobs_fallback(file, data, fileResult)
              IN  [key |-> key, file |-> r.file, ok |-> r.ok,
                   path |-> <<"remote", "local">>]

FilterKeepsAll(jobs, sent) == jobs

\* the loop of lines 352-355
RECURSIVE Filter(_, _)
Filter(jobs, sent) ==
    IF jobs = <<>> THEN <<>>
    ELSE IF Head(jobs).link \notin DOMAIN sent
         THEN <<Head(jobs)>> \o Filter(Tail(jobs), sent)
         ELSE Filter(Tail(jobs), sent)

\* A listing of a fetched page: a card that parses into a posting, or one
\* whose parsing raises.
Card(posting) == [parses |-> TRUE, posting |-> posting]
Malformed == [parses |-> FALSE,
              posting |-> Posting("", "", "", "", "")]

\* the loop over job_listings: a card whose parsing raises is skipped
RECURSIVE ParseCards(_)
ParseCards(page) ==
    IF page = <<>> THEN <<>>
    ELSE IF Head(page).parses
         THEN <<Head(page).posting>> \o ParseCards(Tail(page))
         ELSE ParseCards(Tail(page))

\* net: "ok", or "error" when requests.get / raise_for_status raised a
\* RequestException
scrape_jobberman(net, page) ==
    IF net = "error" THEN <<>> ELSE ParseCards(page)

scrape_careers24(net, page) ==
    IF net = "error" THEN <<>> ELSE ParseCards(page)

scrape_all_jobs_all_or_nothing(netJ, pageJ, netC, pageC) ==
    IF netJ = "error" \/ netC = "error" THEN <<>>
    ELSE ParseCards(pageJ) \o ParseCards(pageC)

scrape_all_jobs(netJ, pageJ, netC, pageC) ==
    scrape_jobberman(netJ, pageJ) \o scrape_careers24(netC, pageC)

Cards(S) == { Card(p) : p \in S }

\* what scrape_all_jobs can return in a run: every outcome of the two
\* requests over every pair of pages of at most MaxScrape cards together
ScrapeResults ==
    { scrape_all_jobs(q[1], q[3], q[2], q[4]) :
        q \in { x \in {"ok", "error"} \X {"ok", "error"}
                      \X SeqsUpTo(Cards(JobbermanPostings), MaxScrape)
                      \X SeqsUpTo(Cards(Careers24Postings), MaxScrape) :
                  Len(x[3]) + Len(x[4]) <= MaxScrape } }

\* format_jobs_for_telegram over every list of postings a run can select,
\* as an explicit table (@@ turns the function into one)
Batches ==
    [jobs \in SeqsUpTo(JobbermanPostings \cup Careers24Postings, MaxScrape) |->
        format_jobs_for_telegram(jobs)] @@ <<>>

\* ------------------------------------------------------------------- state
VARIABLES
    haveRedis,          \* UPSTASH_REDIS_REST_URL and _TOKEN are set
    haveTelegram,       \* TELEGRAM_BOT_TOKEN and TELEGRAM_CHANNEL_ID are set
    remote,             \* value of the key job_scraper:sent_jobs
    local,              \* contents of sent_jobs.json
    pc,                 \* position of main
    sent_jobs_data,     \* in-memory ledger of the run
    all_jobs,
    new_jobs_to_send,
    messages,
    idx,                \* position of the for loop over messages
    success,
    inflight,           \* indices of messages whose send has not returned
    outcome,            \* "none", "nonew", "committed", "aborted"
    saveResult,         \* "none", "ok", "failed"
    run,                \* number of the run, also its clock reading
    loaded,             \* history: ledger returned by load_sent_jobs
    remote0, local0,    \* history: the stores when the run started (SpecRace:
                        \*          when the run loaded)
    sendLog,            \* history: <<index, result>> of the returned sends
    saveCalls,          \* history: calls of save_sent_jobs in this run
    durable,            \* history: links committed by an earlier run whose
                        \*          save returned True
    env                 \* inputs and results of one call of load, save or
                        \* scrape_all_jobs (SpecStore, SpecScrape)

vars == <<haveRedis, haveTelegram, remote, local, pc, sent_jobs_data,
          all_jobs, new_jobs_to_send, messages, idx, success, inflight,
          outcome, saveResult, run, loaded, remote0, local0, sendLog,
          saveCalls, durable, env>>

config == <<haveRedis, haveTelegram, env>>
stores == <<remote, local>>
history0 == <<remote0, local0>>

RunInit ==
    /\ pc = "start"
    /\ sent_jobs_data = EmptyLedger
    /\ all_jobs = <<>>
    /\ new_jobs_to_send = <<>>
    /\ messages = <<>>
    /\ idx = 1
    /\ success = TRUE
    /\ inflight = {}
    /\ outcome = "none"
    /\ saveResult = "none"
    /\ loaded = EmptyLedger
    /\ sendLog = <<>>
    /\ saveCalls = 0

Init ==
    /\ haveRedis \in BOOLEAN
    /\ haveTelegram \in BOOLEAN
    /\ remote \in IF haveRedis THEN {Absent, Corrupt} ELSE {Absent}
    /\ local \in {Absent, Corrupt, Unreadable}
    /\ env = <<>>
    /\ run = 1
    /\ remote0 = remote
    /\ local0 = local
    /\ durable = {}
    /\ RunInit

\* ------------------------------------------------------------ steps of main
\* line 344
Load ==
    /\ pc = "start"
    /\ \E pingOk \in BOOLEAN, getOk \in BOOLEAN :
        LET r == load_sent_jobs(remote, local,
                                test_redis_connection(haveRedis, pingOk),
                                getOk) IN
        /\ sent_jobs_data' = r.data
        /\ loaded' = r.data
        /\ pc' = IF r.raised THEN "crashed" ELSE "loaded"
    /\ UNCHANGED <<config, stores, all_jobs, new_jobs_to_send, messages, idx,
                   success, inflight, outcome, saveResult, run, history0,
                   sendLog, saveCalls, durable>>

\* line 348; a scraper that fails returns []
Scrape ==
    /\ pc = "loaded"
    /\ all_jobs' \in ScrapeResults
    /\ pc' = "aggregated"
    /\ UNCHANGED <<config, stores, sent_jobs_data, new_jobs_to_send, messages,
                   idx, success, inflight, outcome, saveResult, run, loaded,
                   history0, sendLog, saveCalls, durable>>

\* lines 351-355
FilterStep ==
    /\ pc = "aggregated"
    /\ new_jobs_to_send' = Filter(all_jobs, sent_jobs_data)
    /\ pc' = "filtered"
    /\ UNCHANGED <<config, stores, sent_jobs_data, all_jobs, messages, idx,
                   success, inflight, outcome, saveResult, run, loaded,
                   history0, sendLog, saveCalls, durable>>

HasNewAlways == TRUE

\* line 359: if new_jobs_to_send
HasNew == new_jobs_to_send # <<>>

\* lines 359, 381-382
NoNew ==
    /\ pc = "filtered"
    /\ ~HasNew
    /\ outcome' = "nonew"
    /\ pc' = "done"
    /\ UNCHANGED <<config, stores, sent_jobs_data, all_jobs, new_jobs_to_send,
                   messages, idx, success, inflight, saveResult, run, loaded,
                   history0, sendLog, saveCalls, durable>>

\* lines 359-363
Format ==
    /\ pc = "filtered"
    /\ HasNew
    /\ messages' = Batches[new_jobs_to_send]
    /\ success' = TRUE
    /\ idx' = 1
    /\ pc' = "batched"
    /\ UNCHANGED <<config, stores, sent_jobs_data, all_jobs, new_jobs_to_send,
                   inflight, outcome, saveResult, run, loaded, history0,
                   sendLog, saveCalls, durable>>

LoopNeverBreaks == TRUE

\* lines 366-367: the loop is left at the first send that returns False
LoopContinues == success

LoopExitedOnExhaustion == inflight = {} /\ idx > Len(messages)

\* line 364: the for loop has ended, by exhaustion or by break
LoopExited == inflight = {} /\ (~LoopContinues \/ idx > Len(messages))

ShouldCommitAlways == TRUE

\* line 371: if success
ShouldCommit == success

\* line 365: send_telegram_message(message) is called
SendStart ==
    /\ pc \in {"batched", "sending"}
    /\ LoopContinues
    /\ inflight = {}
    /\ idx <= Len(messages)
    /\ inflight' = inflight \cup {idx}
    /\ pc' = "sending"
    /\ UNCHANGED <<config, stores, sent_jobs_data, all_jobs, new_jobs_to_send,
                   messages, idx, success, outcome, saveResult, run, loaded,
                   history0, sendLog, saveCalls, durable>>

\* lines 137-159: without credentials the call returns False, otherwise
\* True unless the Bot API raised
send_telegram_message(ok) == haveTelegram /\ ok

\* lines 365-368: the call returns
SendReturn ==
    /\ pc = "sending"
    /\ inflight # {}
    /\ \E ok \in BOOLEAN :
        LET r == send_telegram_message(ok) IN
        /\ sendLog' = Append(sendLog, <<idx, r>>)
        /\ IF r THEN /\ idx' = idx + 1
                     /\ success' = success
                ELSE /\ idx' = idx
                     /\ success' = FALSE
    /\ inflight' = {}
    /\ UNCHANGED <<config, stores, pc, sent_jobs_data, all_jobs,
                   new_jobs_to_send, messages, outcome, saveResult, run,
                   loaded, history0, saveCalls, durable>>

\* lines 371-378
Commit ==
    /\ pc = "sending"
    /\ LoopExited
    /\ ShouldCommit
    /\ sent_jobs_data' = AddAll(sent_jobs_data, new_jobs_to_send, run)
    /\ \E pingOk \in BOOLEAN, setOk \in BOOLEAN,
          fileResult \in {"ok", "open_fails", "write_fails"} :
        LET r == save_sent_jobs(remote, local, sent_jobs_data',
                                test_redis_connection(haveRedis, pingOk),
                                setOk, fileResult) IN
        /\ remote' = r.key
        /\ local' = r.file
        /\ saveResult' = IF r.ok THEN "ok" ELSE "failed"
        /\ durable' = IF r.ok THEN durable \cup Links(new_jobs_to_send)
                      ELSE durable
    /\ saveCalls' = saveCalls + 1
    /\ outcome' = "committed"
    /\ pc' = "done"
    /\ UNCHANGED <<config, all_jobs, new_jobs_to_send, messages, idx, success,
                   inflight, run, loaded, history0, sendLog>>

\* lines 379-380
Abort ==
    /\ pc = "sending"
    /\ LoopExited
    /\ ~ShouldCommit
    /\ outcome' = "aborted"
    /\ pc' = "done"
    /\ UNCHANGED <<config, stores, sent_jobs_data, all_jobs, new_jobs_to_send,
                   messages, idx, success, inflight, saveResult, run, loaded,
                   history0, sendLog, saveCalls, durable>>

\* the next invocation of main (lines 384-386), after the previous one ended
NextRun ==
    /\ pc \in {"done", "crashed"}
    /\ run < MaxRuns
    /\ run' = run + 1
    /\ remote0' = remote
    /\ local0' = local
    /\ pc' = "start"
    /\ sent_jobs_data' = EmptyLedger
    /\ all_jobs' = <<>>
    /\ new_jobs_to_send' = <<>>
    /\ messages' = <<>>
    /\ idx' = 1
    /\ success' = TRUE
    /\ inflight' = {}
    /\ outcome' = "none"
    /\ saveResult' = "none"
    /\ loaded' = EmptyLedger
    /\ sendLog' = <<>>
    /\ saveCalls' = 0
    /\ UNCHANGED <<config, stores, durable>>

\* one invocation of main
RunStep ==
    \/ Load
    \/ Scrape
    \/ FilterStep
    \/ NoNew
    \/ Format
    \/ SendStart
    \/ SendReturn
    \/ Commit
    \/ Abort

Next ==
    \/ Load
    \/ Scrape
    \/ FilterStep
    \/ NoNew
    \/ Format
    \/ SendStart
    \/ SendReturn
    \/ Commit
    \/ Abort
    \/ NextRun

Spec == Init /\ [][Next]_vars

\* ------------------------------------------- the batcher as a pure function
InitBatch ==
    /\ env = <<>>
    /\ haveRedis = FALSE
    /\ haveTelegram = FALSE
    /\ remote = Absent
    /\ local = Absent
    /\ run = 1
    /\ remote0 = remote
    /\ local0 = local
    /\ durable = {}
    /\ pc = "filtered"
    /\ sent_jobs_data = EmptyLedger
    /\ all_jobs = <<>>
    /\ new_jobs_to_send \in SeqsUpTo(BatchPostings, MaxJobs)
    /\ messages = <<>>
    /\ idx = 1
    /\ success = TRUE
    /\ inflight = {}
    /\ outcome = "none"
    /\ saveResult = "none"
    /\ loaded = EmptyLedger
    /\ sendLog = <<>>
    /\ saveCalls = 0

FormatCall ==
    /\ pc = "filtered"
    /\ messages' = format_jobs_for_telegram(new_jobs_to_send)
    /\ pc' = "batched"
    /\ UNCHANGED <<config, stores, sent_jobs_data, all_jobs, new_jobs_to_send,
                   idx, success, inflight, outcome, saveResult, run, loaded,
                   history0, sendLog, saveCalls, durable>>

NextBatch == FormatCall

SpecBatch == InitBatch /\ [][NextBatch]_vars

\* ------------------------------------------------ one run, run to its end
\* main is one sequential coroutine: whenever a step is possible it is taken.
SpecLive == Init /\ [][RunStep]_vars /\ WF_vars(RunStep)

\* ---------------------------------- load and save as functions of the stores
StoreLedgers ==
    { EmptyLedger,
      [k \in {"L1"} |->
          [source |-> "Jobberman", title |-> "large", sent_date |-> 1]],
      [k \in {"L1", "L3"} |->
          [source |-> "Careers24", title |-> "small", sent_date |-> 2]] }

StoreValues == {Absent, Corrupt} \cup { Stored(l) : l \in StoreLedgers }

InitStore ==
    /\ haveRedis \in BOOLEAN
    /\ haveTelegram = FALSE
    /\ remote \in StoreValues
    /\ local \in StoreValues \cup {Unreadable}
    /\ env \in [op : {"load", "save"}, pingOk : BOOLEAN, getOk : BOOLEAN,
                setOk : BOOLEAN,
                fileResult : {"ok", "open_fails", "write_fails"},
                path : {<<>>}, raised : {FALSE}]
    /\ sent_jobs_data \in IF env.op = "save" THEN StoreLedgers
                          ELSE {EmptyLedger}
    /\ run = 1
    /\ remote0 = remote
    /\ local0 = local
    /\ durable = {}
    /\ pc = "call"
    /\ all_jobs = <<>>
    /\ new_jobs_to_send = <<>>
    /\ messages = <<>>
    /\ idx = 1
    /\ success = TRUE
    /\ inflight = {}
    /\ outcome = "none"
    /\ saveResult = "none"
    /\ loaded = EmptyLedger
    /\ sendLog = <<>>
    /\ saveCalls = 0

LoadCall ==
    /\ pc = "call"
    /\ env.op = "load"
    /\ LET r == load_sent_jobs(remote, local,
                               test_redis_connection(haveRedis, env.pingOk),
                               env.getOk) IN
        /\ sent_jobs_data' = r.data
        /\ env' = [env EXCEPT !.raised = r.raised]
    /\ pc' = "returned"
    /\ UNCHANGED <<haveRedis, haveTelegram, stores, all_jobs,
                   new_jobs_to_send, messages, idx, success, inflight,
                   outcome, saveResult, run, loaded, history0, sendLog,
                   saveCalls, durable>>

SaveCall ==
    /\ pc = "call"
    /\ env.op = "save"
    /\ LET r == save_sent_jobs(remote, local, sent_jobs_data,
                               test_redis_connection(haveRedis, env.pingOk),
                               env.setOk, env.fileResult) IN
        /\ remote' = r.key
        /\ local' = r.file
        /\ saveResult' = IF r.ok THEN "ok" ELSE "failed"
        /\ env' = [env EXCEPT !.path = r.path]
    /\ saveCalls' = saveCalls + 1
    /\ pc' = "returned"
    /\ UNCHANGED <<haveRedis, haveTelegram, sent_jobs_data, all_jobs,
                   new_jobs_to_send, messages, idx, success, inflight,
                   outcome, run, loaded, history0, sendLog, durable>>

NextStore == LoadCall \/ SaveCall

SpecStore == InitStore /\ [][NextStore]_vars

\* ------------------------------------- the aggregator as a pure function
Listings(S) == Cards(S) \cup {Malformed}

InitScrape ==
    /\ haveRedis = FALSE
    /\ haveTelegram = FALSE
    /\ remote = Absent
    /\ local = Absent
    /\ env \in { e \in [netJ : {"ok", "error"}, netC : {"ok", "error"},
                         pageJ : SeqsUpTo(Listings(JobbermanPostings),
                                          MaxScrape),
                         pageC : SeqsUpTo(Listings(Careers24Postings),
                                          MaxScrape)] :
                    Len(e.pageJ) + Len(e.pageC) <= MaxScrape }
    /\ run = 1
    /\ remote0 = remote
    /\ local0 = local
    /\ durable = {}
    /\ pc = "loaded"
    /\ sent_jobs_data = EmptyLedger
    /\ all_jobs = <<>>
    /\ new_jobs_to_send = <<>>
    /\ messages = <<>>
    /\ idx = 1
    /\ success = TRUE
    /\ inflight = {}
    /\ outcome = "none"
    /\ saveResult = "none"
    /\ loaded = EmptyLedger
    /\ sendLog = <<>>
    /\ saveCalls = 0

ScrapeCall ==
    /\ pc = "loaded"
    /\ all_jobs' = scrape_all_jobs(env.netJ, env.pageJ, env.netC, env.pageC)
    /\ pc' = "aggregated"
    /\ UNCHANGED <<config, stores, sent_jobs_data, new_jobs_to_send, messages,
                   idx, success, inflight, outcome, saveResult, run, loaded,
                   history0, sendLog, saveCalls, durable>>

NextScrape == ScrapeCall

SpecScrape == InitScrape /\ [][NextScrape]_vars

\* --------------------------------------- two invocations of main that overlap
\* Nothing in main takes a lock: two invocations share the key and the file
\* and interleave at every external call. Here every variable of a run is a
\* function of the invocation; remote and local are the shared stores.
Runs == {1, 2}

\* what scrape_all_jobs returns to one of the overlapping runs
RaceScrapeResults == { jobs \in ScrapeResults : Len(jobs) <= MaxRaceScrape }

InitRace ==
    /\ haveRedis \in BOOLEAN
    /\ haveTelegram \in BOOLEAN
    /\ remote = Absent
    /\ local = Absent
    /\ env = <<>>
    /\ run = [p \in Runs |-> p]
    /\ remote0 = [p \in Runs |-> remote]
    /\ local0 = [p \in Runs |-> local]
    /\ durable = {}
    /\ pc = [p \in Runs |-> "start"]
    /\ sent_jobs_data = [p \in Runs |-> EmptyLedger]
    /\ all_jobs = [p \in Runs |-> <<>>]
    /\ new_jobs_to_send = [p \in Runs |-> <<>>]
    /\ messages = [p \in Runs |-> <<>>]
    /\ idx = [p \in Runs |-> 1]
    /\ success = [p \in Runs |-> TRUE]
    /\ inflight = {}
    /\ outcome = [p \in Runs |-> "none"]
    /\ saveResult = [p \in Runs |-> "none"]
    /\ loaded = [p \in Runs |-> EmptyLedger]
    /\ sendLog = [p \in Runs |-> <<>>]
    /\ saveCalls = 0

\* line 344
RaceLoad(p) ==
    /\ pc[p] = "start"
    /\ \E pingOk \in BOOLEAN, getOk \in BOOLEAN :
        LET r == load_sent_jobs(remote, local,
                                test_redis_connection(haveRedis, pingOk),
                                getOk) IN
        /\ sent_jobs_data' = [sent_jobs_data EXCEPT ![p] = r.data]
        /\ loaded' = [loaded EXCEPT ![p] = r.data]
        /\ remote0' = [remote0 EXCEPT ![p] = remote]
        /\ local0' = [local0 EXCEPT ![p] = local]
        /\ pc' = [pc EXCEPT ![p] = IF r.raised THEN "crashed" ELSE "loaded"]
    /\ UNCHANGED <<config, stores, all_jobs, new_jobs_to_send, messages, idx,
                   success, inflight, outcome, saveResult, run, sendLog,
                   saveCalls, durable>>

\* lines 348-355: scrape_all_jobs, then the filter against the run's ledger
RaceScrape(p) ==
    /\ pc[p] = "loaded"
    /\ \E jobs \in RaceScrapeResults :
        /\ all_jobs' = [all_jobs EXCEPT ![p] = jobs]
        /\ new_jobs_to_send' =
              [new_jobs_to_send EXCEPT ![p] = Filter(jobs, sent_jobs_data[p])]
    /\ pc' = [pc EXCEPT ![p] = "filtered"]
    /\ UNCHANGED <<config, stores, sent_jobs_data, messages, idx, success,
                   inflight, outcome, saveResult, run, loaded, history0,
                   sendLog, saveCalls, durable>>

\* lines 359, 381-382
RaceNoNew(p) ==
    /\ pc[p] = "filtered"
    /\ new_jobs_to_send[p] = <<>>
    /\ outcome' = [outcome EXCEPT ![p] = "nonew"]
    /\ pc' = [pc EXCEPT ![p] = "done"]
    /\ UNCHANGED <<config, stores, sent_jobs_data, all_jobs, new_jobs_to_send,
                   messages, idx, success, inflight, saveResult, run, loaded,
                   history0, sendLog, saveCalls, durable>>

\* lines 359-363
RaceFormat(p) ==
    /\ pc[p] = "filtered"
    /\ new_jobs_to_send[p] # <<>>
    /\ messages' = [messages EXCEPT ![p] = Batches[new_jobs_to_send[p]]]
    /\ pc' = [pc EXCEPT ![p] = "sending"]
    /\ UNCHANGED <<config, stores, sent_jobs_data, all_jobs, new_jobs_to_send,
                   idx, success, inflight, outcome, saveResult, run, loaded,
                   history0, sendLog, saveCalls, durable>>

\* lines 364-368: one pass of the loop, the send called and returned
RaceSend(p) ==
    /\ pc[p] = "sending"
    /\ success[p]
    /\ idx[p] <= Len(messages[p])
    /\ \E ok \in BOOLEAN :
        LET r == send_telegram_message(ok) IN
        /\ sendLog' = [sendLog EXCEPT ![p] = Append(@, <<idx[p], r>>)]
        /\ idx' = [idx EXCEPT ![p] = IF r THEN @ + 1 ELSE @]
        /\ success' = [success EXCEPT ![p] = r]
    /\ UNCHANGED <<config, stores, pc, sent_jobs_data, all_jobs,
                   new_jobs_to_send, messages, inflight, outcome, saveResult,
                   run, loaded, history0, saveCalls, durable>>

CommitLedgerReloaded(p) ==
    AddAll(PersistedLedger(IF haveRedis THEN remote ELSE local),
           new_jobs_to_send[p], run[p])

\* lines 372-373: the entries are added to the ledger the run loaded
CommitLedger(p) == AddAll(sent_jobs_data[p], new_jobs_to_send[p], run[p])

\* lines 371-378
RaceCommit(p) ==
    /\ pc[p] = "sending"
    /\ success[p]
    /\ idx[p] > Len(messages[p])
    /\ sent_jobs_data' = [sent_jobs_data EXCEPT ![p] = CommitLedger(p)]
    /\ \E pingOk \in BOOLEAN, setOk \in BOOLEAN,
          fileResult \in {"ok", "open_fails", "write_fails"} :
        LET r == save_sent_jobs(remote, local, sent_jobs_data'[p],
                                test_redis_connection(haveRedis, pingOk),
                                setOk, fileResult) IN
        /\ remote' = r.key
        /\ local' = r.file
        /\ saveResult' =
              [saveResult EXCEPT ![p] = IF r.ok THEN "ok" ELSE "failed"]
    /\ outcome' = [outcome EXCEPT ![p] = "committed"]
    /\ pc' = [pc EXCEPT ![p] = "done"]
    /\ UNCHANGED <<config, all_jobs, new_jobs_to_send, messages, idx, success,
                   inflight, run, loaded, history0, sendLog, saveCalls,
                   durable>>

\* lines 379-380
RaceAbort(p) ==
    /\ pc[p] = "sending"
    /\ ~success[p]
    /\ outcome' = [outcome EXCEPT ![p] = "aborted"]
    /\ pc' = [pc EXCEPT ![p] = "done"]
    /\ UNCHANGED <<config, stores, sent_jobs_data, all_jobs, new_jobs_to_send,
                   messages, idx, success, inflight, saveResult, run, loaded,
                   history0, sendLog, saveCalls, durable>>

NextRace ==
    \E p \in Runs :
        \/ RaceLoad(p)
        \/ RaceScrape(p)
        \/ RaceNoNew(p)
        \/ RaceFormat(p)
        \/ RaceSend(p)
        \/ RaceCommit(p)
        \/ RaceAbort(p)

SpecRace == InitRace /\ [][NextRace]_vars

\* ------------------------- the single-source entry point, app/bot/main.py
\* sent_jobs.txt is a list of lines, one link and a newline each; the file
\* may not exist yet.
Line(link) == <<link, "\n">>
Strip(line) == line[1]
TextFile(lines) == [kind |-> "text", data |-> lines]

\* lines 19-24
bot_load_sent_jobs(file) ==
    IF file.kind = "text"
    THEN { Strip(file.data[i]) : i \in DOMAIN file.data }
    ELSE {}

\* lines 26-30: open(SENT_JOBS_FILE, 'a') creates the file when it is
\* missing; fileResult "open_fails" is open() raising, nothing is caught
bot_save_sent_jobs(file, job_links, fileResult) ==
    IF fileResult = "ok"
    THEN [file |-> TextFile((IF file.kind = "text" THEN file.data ELSE <<>>)
                            \o [i \in DOMAIN job_links |-> Line(job_links[i])]),
          raised |-> FALSE]
    ELSE [file |-> file, raised |-> TRUE]

\* lines 32-45: whether the message reached the channel; the function
\* returns None on every path, with credentials missing, after an exception
\* and after a delivery alike
bot_send_telegram_message(ok) == haveTelegram /\ ok

\* lines 47-100
bot_scrape_jobs(net, page) ==
    IF net = "error" THEN <<>> ELSE ParseCards(page)

\* lines 129-132
RECURSIVE NewJobs(_, _)
NewJobs(jobs, sent_jobs) ==
    IF jobs = <<>> THEN <<>>
    ELSE IF Head(jobs).link \notin sent_jobs
         THEN <<Head(jobs)>> \o NewJobs(Tail(jobs), sent_jobs)
         ELSE NewJobs(Tail(jobs), sent_jobs)

\* lines 102-114: one message with every posting, whatever its length
bot_format_jobs_for_telegram(jobs) == Message("new", "Jobberman", jobs)

JobLinks(jobs) == [i \in DOMAIN jobs |-> jobs[i].link]

InitBot ==
    /\ haveRedis = FALSE
    /\ haveTelegram \in BOOLEAN
    /\ remote = Absent
    /\ local = Absent
    /\ env = <<>>
    /\ run = 1
    /\ remote0 = remote
    /\ local0 = local
    /\ durable = {}
    /\ pc = "start"
    /\ sent_jobs_data = {}
    /\ all_jobs = <<>>
    /\ new_jobs_to_send = <<>>
    /\ messages = <<>>
    /\ idx = 1
    /\ success = TRUE
    /\ inflight = {}
    /\ outcome = "none"
    /\ saveResult = "none"
    /\ loaded = {}
    /\ sendLog = <<>>
    /\ saveCalls = 0

\* line 121
BotLoad ==
    /\ pc = "start"
    /\ sent_jobs_data' = bot_load_sent_jobs(local)
    /\ loaded' = bot_load_sent_jobs(local)
    /\ pc' = "loaded"
    /\ UNCHANGED <<config, stores, all_jobs, new_jobs_to_send, messages, idx,
                   success, inflight, outcome, saveResult, run, history0,
                   sendLog, saveCalls, durable>>

\* line 124
BotScrape ==
    /\ pc = "loaded"
    /\ \E net \in {"ok", "error"},
          page \in SeqsUpTo(Listings(JobbermanPostings), MaxScrape) :
        all_jobs' = bot_scrape_jobs(net, page)
    /\ pc' = "aggregated"
    /\ UNCHANGED <<config, stores, sent_jobs_data, new_jobs_to_send, messages,
                   idx, success, inflight, outcome, saveResult, run, loaded,
                   history0, sendLog, saveCalls, durable>>

\* lines 126-132
BotFilter ==
    /\ pc = "aggregated"
    /\ new_jobs_to_send' = NewJobs(all_jobs, sent_jobs_data)
    /\ pc' = "filtered"
    /\ UNCHANGED <<config, stores, sent_jobs_data, all_jobs, messages, idx,
                   success, inflight, outcome, saveResult, run, loaded,
                   history0, sendLog, saveCalls, durable>>

\* lines 134, 141-142
BotNoNew ==
    /\ pc = "filtered"
    /\ new_jobs_to_send = <<>>
    /\ outcome' = "nonew"
    /\ pc' = "done"
    /\ UNCHANGED <<config, stores, sent_jobs_data, all_jobs, new_jobs_to_send,
                   messages, idx, success, inflight, saveResult, run, loaded,
                   history0, sendLog, saveCalls, durable>>

\* lines 134-137: the message is built and send_telegram_message awaited;
\* nothing of its outcome comes back to main
BotSend ==
    /\ pc = "filtered"
    /\ new_jobs_to_send # <<>>
    /\ messages' = <<bot_format_jobs_for_telegram(new_jobs_to_send)>>
    /\ \E ok \in BOOLEAN :
        sendLog' = Append(sendLog, <<1, bot_send_telegram_message(ok)>>)
    /\ pc' = "sending"
    /\ UNCHANGED <<config, stores, sent_jobs_data, all_jobs, new_jobs_to_send,
                   idx, success, inflight, outcome, saveResult, run, loaded,
                   history0, saveCalls, durable>>

\* line 140
BotSave ==
    /\ pc = "sending"
    /\ \E fileResult \in {"ok", "open_fails"} :
        LET r == bot_save_sent_jobs(local, JobLinks(new_jobs_to_send),
                                    fileResult) IN
        /\ local' = r.file
        /\ saveResult' = IF r.raised THEN "failed" ELSE "ok"
        /\ pc' = IF r.raised THEN "crashed" ELSE "done"
    /\ saveCalls' = saveCalls + 1
    /\ outcome' = "committed"
    /\ UNCHANGED <<config, remote, sent_jobs_data, all_jobs, new_jobs_to_send,
                   messages, idx, success, inflight, run, loaded, history0,
                   sendLog, durable>>

\* lines 144-146: the next invocation
BotNextRun ==
    /\ pc \in {"done", "crashed"}
    /\ run < MaxRuns
    /\ run' = run + 1
    /\ remote0' = remote
    /\ local0' = local
    /\ pc' = "start"
    /\ sent_jobs_data' = {}
    /\ all_jobs' = <<>>
    /\ new_jobs_to_send' = <<>>
    /\ messages' = <<>>
    /\ outcome' = "none"
    /\ saveResult' = "none"
    /\ loaded' = {}
    /\ sendLog' = <<>>
    /\ saveCalls' = 0
    /\ UNCHANGED <<config, stores, idx, success, inflight, durable>>

NextBot ==
    \/ BotLoad
    \/ BotScrape
    \/ BotFilter
    \/ BotNoNew
    \/ BotSend
    \/ BotSave
    \/ BotNextRun

SpecBot == InitBot /\ [][NextBot]_vars

TypeOK ==
    /\ pc \in {"start", "loaded", "aggregated", "filtered", "batched",
               "sending", "done", "crashed", "call", "returned"}
    /\ outcome \in {"none", "nonew", "committed", "aborted"}
    /\ idx \in 1..(Len(messages) + 1)
    /\ run \in 1..MaxRuns


\* ------------------------------------------------------------- properties
FailedSend == \E i \in DOMAIN sendLog : ~sendLog[i][2]

StoresUntouched == remote = remote0 /\ local = local0

\* C1: once a send of the run has returned failure, the run never changes the
\* in-memory ledger or a store and never calls save, also when earlier sends
\* of the run succeeded.
C1_AbortLeavesLedger ==
    FailedSend =>
        /\ sent_jobs_data = loaded
        /\ saveCalls = 0
        /\ saveResult = "none"
        /\ StoresUntouched
        /\ outcome \in {"none", "aborted"}

C1_Witness ==
    /\ pc = "done"
    /\ outcome = "aborted"
    /\ Len(sendLog) = 2
    /\ sendLog[1][2]
    /\ ~sendLog[2][2]
    /\ loaded # EmptyLedger

\* C2: a posting committed by an earlier run whose save returned success is
\* not selected by the filter and not sent in a later run.
C2_NeverResent ==
    pc \in {"filtered", "batched", "sending"} =>
        /\ Links(new_jobs_to_send) \cap durable = {}
        /\ \A i \in DOMAIN sendLog :
              Links(messages[sendLog[i][1]].jobs) \cap durable = {}

\* C3: the filter step yields the postings of all_jobs whose link is not a key
\* of the ledger, in the order of all_jobs, whatever their other fields, and
\* leaves the ledger and all_jobs as they were.
C3_FilterExact ==
    [][(pc = "aggregated" /\ pc' = "filtered") =>
         LET Keep == { k \in DOMAIN all_jobs :
                          all_jobs[k].link \notin DOMAIN sent_jobs_data }
             Nth(i) == CHOOSE k \in Keep :
                          Cardinality({ m \in Keep : m <= k }) = i
         IN  /\ Len(new_jobs_to_send') = Cardinality(Keep)
             /\ \A i \in DOMAIN new_jobs_to_send' :
                   new_jobs_to_send'[i] = all_jobs[Nth(i)]
             /\ all_jobs' = all_jobs
             /\ sent_jobs_data' = sent_jobs_data
    ]_vars

C3_Witness ==
    /\ pc = "filtered"
    /\ Len(new_jobs_to_send) >= 2
    /\ Len(new_jobs_to_send) < Len(all_jobs)
    /\ \E i \in DOMAIN all_jobs :
          /\ all_jobs[i].link \in DOMAIN sent_jobs_data
          /\ sent_jobs_data[all_jobs[i].link].title # all_jobs[i].title

\* C4: after a committed run the ledger handed to save has, for every selected
\* posting, an entry under its link with that posting's source and title.
C4_EntryPerPosting ==
    (pc = "done" /\ outcome = "committed") =>
        \A i \in DOMAIN new_jobs_to_send :
            LET job == new_jobs_to_send[i] IN
            /\ job.link \in DOMAIN sent_jobs_data
            /\ sent_jobs_data[job.link].source = job.source
            /\ sent_jobs_data[job.link].title = job.title

SentOk == UNION { Links(messages[sendLog[i][1]].jobs) :
                    i \in { j \in DOMAIN sendLog : sendLog[j][2] } }

\* C5: the ledger a run hands to save keeps every entry it loaded, unchanged,
\* and adds only links of postings whose message was sent successfully in the
\* run; a store written by the run holds exactly that ledger.
C5_OnlyAdditions ==
    /\ \A k \in DOMAIN loaded :
          k \in DOMAIN sent_jobs_data /\ sent_jobs_data[k] = loaded[k]
    /\ \A k \in DOMAIN sent_jobs_data \ DOMAIN loaded :
          /\ outcome = "committed"
          /\ k \in SentOk
          /\ sent_jobs_data[k].sent_date = run
    /\ saveResult = "ok" =>
          \/ remote = Stored(sent_jobs_data) /\ local = local0
          \/ local = Stored(sent_jobs_data) /\ remote = remote0

C5_Witness ==
    /\ pc = "done"
    /\ outcome = "committed"
    /\ saveResult = "ok"
    /\ loaded # EmptyLedger
    /\ DOMAIN sent_jobs_data # DOMAIN loaded

AppendOnly(old, new) ==
    old.kind = "json" =>
        /\ new.kind = "json"
        /\ \A k \in DOMAIN old.data :
              k \in DOMAIN new.data /\ new.data[k] = old.data[k]

\* C6: no step removes a link from a store that holds it, or changes the
\* entry stored under it.
C6_StoresAppendOnly ==
    [][AppendOnly(remote, remote') /\ AppendOnly(local, local')]_vars

RECURSIVE Flatten(_)
Flatten(msgs) ==
    IF msgs = <<>> THEN <<>> ELSE Head(msgs).jobs \o Flatten(Tail(msgs))

Occurrences(seq, x) == Cardinality({ i \in DOMAIN seq : seq[i] = x })

OfSource(seq, src) ==
    LET FromSrc(j) == j.source = src IN SelectSeq(seq, FromSrc)

\* C7: for a non-empty input the messages, read in order, hold every input
\* posting as often as the input does, and each source's postings in their
\* input order.
C7_BatchComplete ==
    (pc = "batched" /\ new_jobs_to_send # <<>>) =>
        LET flat == Flatten(messages) IN
        /\ Len(flat) = Len(new_jobs_to_send)
        /\ \A p \in Range(new_jobs_to_send) \cup Range(flat) :
              Occurrences(flat, p) = Occurrences(new_jobs_to_send, p)
        /\ \A src \in { p.source : p \in Range(new_jobs_to_send) } :
              OfSource(flat, src) = OfSource(new_jobs_to_send, src)

C7_Witness ==
    /\ pc = "batched"
    /\ Len(new_jobs_to_send) = 4
    /\ new_jobs_to_send[1].source # new_jobs_to_send[2].source
    /\ new_jobs_to_send[3].source = new_jobs_to_send[1].source
    /\ new_jobs_to_send[3] # new_jobs_to_send[1]
    /\ Len(messages) >= 3

\* C8 as stated: a message is longer than the threshold only if it holds
\* exactly one posting whose block alone is longer than the threshold.
C8_SizeBound ==
    pc = "batched" =>
        \A i \in DOMAIN messages :
            \/ StripLen(messages[i]) <= MessageLimit
            \/ /\ Len(messages[i].jobs) = 1
               /\ BlockLen(messages[i].jobs[1]) > MessageLimit

\* C8 amended: a message is longer than the threshold only if it is a
\* continuation message holding exactly one posting, whose block together
\* with the continuation header is longer than the threshold.
C8_SizeBoundWithHeader ==
    pc = "batched" =>
        \A i \in DOMAIN messages :
            \/ StripLen(messages[i]) <= MessageLimit
            \/ /\ messages[i].kind = "more"
               /\ Len(messages[i].jobs) = 1
               /\ MoreHeaderFixed + TextLen(messages[i].source)
                    + BlockLen(messages[i].jobs[1]) > MessageLimit

C8_Witness ==
    /\ pc = "batched"
    /\ \E i, j \in DOMAIN messages :
          /\ StripLen(messages[i]) > MessageLimit
          /\ BlockLen(messages[i].jobs[1]) <= MessageLimit
          /\ Len(messages[j].jobs) >= 2
          /\ StripLen(messages[j]) > MessageLimit - 100

\* C9: the sends of a run are the messages 1, 2, ... in order, each started
\* after the previous one returned success, never two at once, and none after
\* a send that returned failure.
C9_SequentialPrefix ==
    /\ Cardinality(inflight) <= 1
    /\ Len(sendLog) <= Len(messages)
    /\ \A i \in DOMAIN sendLog :
          /\ sendLog[i][1] = i
          /\ i < Len(sendLog) => sendLog[i][2]
    /\ inflight # {} =>
          /\ inflight = {Len(sendLog) + 1}
          /\ Len(sendLog) < Len(messages)
          /\ ~FailedSend

C9_Witness ==
    /\ pc = "done"
    /\ Len(messages) = 3
    /\ Len(sendLog) = 2
    /\ sendLog[1][2]
    /\ ~sendLog[2][2]

\* C10: when the filter selects nothing the run ends with no send and no
\* save, and both stores are as they were; sends and saves happen only in
\* runs that selected a posting.
C10_NothingNewNothingDone ==
    /\ outcome = "nonew" =>
          /\ new_jobs_to_send = <<>>
          /\ messages = <<>>
          /\ sendLog = <<>>
          /\ inflight = {}
          /\ saveCalls = 0
          /\ StoresUntouched
          /\ sent_jobs_data = loaded
    /\ (pc \in {"batched", "sending"} \/ sendLog # <<>> \/ saveCalls > 0) =>
          new_jobs_to_send # <<>>

C10_Witness ==
    /\ pc = "done"
    /\ outcome = "nonew"
    /\ all_jobs # <<>>
    /\ loaded # EmptyLedger


\* C11: of the selected postings no two carry the same link, and no link is
\* rendered twice in the messages of a run.
C11_SecondIsDuplicate ==
    pc \in {"filtered", "batched", "sending", "done"} =>
        /\ \A i, j \in DOMAIN new_jobs_to_send :
              new_jobs_to_send[i].link = new_jobs_to_send[j].link => i = j
        /\ LET flat == Flatten(messages) IN
           \A i, j \in DOMAIN flat : flat[i].link = flat[j].link => i = j

\* C15: without Telegram credentials no step of a run is taken: nothing is
\* loaded, scraped or sent.
C15_NoRunWithoutCredentials ==
    ~haveTelegram =>
        /\ pc = "start"
        /\ all_jobs = <<>>
        /\ sendLog = <<>>
        /\ inflight = {}

\* C17: when every send succeeded and save returned failure the run ends
\* committed, every message was sent once, and both stores hold the ledger
\* they held before the run.
C17_SaveFailureKeepsStore ==
    (pc = "done" /\ saveResult = "failed") =>
        /\ outcome = "committed"
        /\ Len(sendLog) = Len(messages)
        /\ \A i \in DOMAIN sendLog : sendLog[i] = <<i, TRUE>>
        /\ PersistedLedger(remote) = PersistedLedger(remote0)
        /\ PersistedLedger(local) = PersistedLedger(local0)

\* C18: for a non-empty input every message holds at least one posting.
C18_NoHeaderOnlyMessage ==
    (pc = "batched" /\ new_jobs_to_send # <<>>) =>
        \A i \in DOMAIN messages : messages[i].jobs # <<>>

FirstSeen(seq, src) ==
    CHOOSE i \in DOMAIN seq :
        /\ seq[i].source = src
        /\ \A k \in 1..(i - 1) : seq[k].source # src

\* C19: a message holds postings of the source of its header only, the
\* messages of one source are adjacent, and the sources come in the order in
\* which the input first shows them.
C19_SourcesGrouped ==
    (pc = "batched" /\ new_jobs_to_send # <<>>) =>
        /\ \A i \in DOMAIN messages : \A k \in DOMAIN messages[i].jobs :
              messages[i].jobs[k].source = messages[i].source
        /\ \A i, j \in DOMAIN messages :
              (i < j /\ messages[i].source # messages[j].source) =>
                  /\ \A k \in DOMAIN messages :
                        k > j => messages[k].source # messages[i].source
                  /\ FirstSeen(new_jobs_to_send, messages[i].source)
                       < FirstSeen(new_jobs_to_send, messages[j].source)
        /\ { messages[i].source : i \in DOMAIN messages }
             = { new_jobs_to_send[i].source : i \in DOMAIN new_jobs_to_send }

C19_Witness ==
    /\ pc = "batched"
    /\ Len(new_jobs_to_send) = 4
    /\ new_jobs_to_send[1].source = "Careers24"
    /\ new_jobs_to_send[2].source = "Jobberman"
    /\ new_jobs_to_send[3].source = "Careers24"
    /\ new_jobs_to_send[4].source = "Jobberman"
    /\ Len(messages) >= 3

Oversized(job) == BlockLen(job) > MessageLimit

\* C20: a posting whose block alone is longer than the threshold is in the
\* output as often as in the input, alone in its message, and that message
\* carries its whole block.
C20_OversizedAlone ==
    (pc = "batched" /\ new_jobs_to_send # <<>>) =>
        /\ \A p \in { q \in Range(new_jobs_to_send) : Oversized(q) } :
              Occurrences(Flatten(messages), p)
                = Occurrences(new_jobs_to_send, p)
        /\ \A i \in DOMAIN messages : \A k \in DOMAIN messages[i].jobs :
              Oversized(messages[i].jobs[k]) =>
                  /\ Len(messages[i].jobs) = 1
                  /\ StripLen(messages[i])
                       = HeaderLen(messages[i])
                           + BlockLen(messages[i].jobs[k]) - StripTail

C20_Witness ==
    /\ pc = "batched"
    /\ Len(new_jobs_to_send) = 3
    /\ ~Oversized(new_jobs_to_send[1])
    /\ Oversized(new_jobs_to_send[2])
    /\ ~Oversized(new_jobs_to_send[3])
    /\ \A i \in 1..3 : new_jobs_to_send[i].source = "Jobberman"
    /\ Len(messages) = 3
    /\ \A i \in 1..3 : messages[i].jobs = <<new_jobs_to_send[i]>>


Probe == test_redis_connection(haveRedis, env.pingOk)

\* C12: a save tries the remote key first when the probe succeeded and turns
\* to the file only when the probe failed or the SET did not succeed; it
\* returns success exactly when one of the two stores now holds the whole
\* ledger it was given, and leaves a store it did not write as it was.
C12_SaveRemoteFirst ==
    (pc = "returned" /\ env.op = "save") =>
        LET remoteWritten == Probe /\ env.setOk
            localTried == \E i \in DOMAIN env.path : env.path[i] = "local"
            localWritten == localTried /\ env.fileResult = "ok"
        IN  /\ env.path # <<>>
            /\ Probe <=> env.path[1] = "remote"
            /\ localTried <=> (~Probe \/ ~env.setOk)
            /\ (saveResult = "ok") <=> (remoteWritten \/ localWritten)
            /\ saveResult \in {"ok", "failed"}
            /\ remoteWritten => remote = Stored(sent_jobs_data)
            /\ localWritten => local = Stored(sent_jobs_data)
            /\ ~remoteWritten => remote = remote0
            /\ ~localTried => local = local0

C12_Witness ==
    /\ pc = "returned"
    /\ env.op = "save"
    /\ env.path = <<"remote", "local">>
    /\ saveResult = "ok"
    /\ local = Stored(sent_jobs_data)
    /\ local # local0
    /\ remote = remote0
    /\ sent_jobs_data # EmptyLedger

\* C13: a load does not raise; with a successful probe it returns the value
\* of the remote key, or the empty ledger when the key is absent, cannot be
\* fetched or does not deserialize; with a failed probe it returns the
\* content of the file, or the empty ledger when the file is absent or corrupt.
C13_LoadPolicy ==
    (pc = "returned" /\ env.op = "load") =>
        /\ ~env.raised
        /\ sent_jobs_data =
              IF Probe
              THEN IF env.getOk /\ remote.kind = "json"
                   THEN remote.data ELSE EmptyLedger
              ELSE IF local.kind = "json" THEN local.data ELSE EmptyLedger

Parsed(page) ==
    LET Good(c) == c.parses
        kept == SelectSeq(page, Good)
    IN  [i \in DOMAIN kept |-> kept[i].posting]

ExtractionFailed(net, page) ==
    \/ net = "error"
    \/ page # <<>> /\ \A i \in DOMAIN page : ~page[i].parses

RunEdges ==
    { <<"start", "loaded">>, <<"start", "crashed">>,
      <<"loaded", "aggregated">>, <<"aggregated", "filtered">>,
      <<"filtered", "batched">>, <<"filtered", "done">>,
      <<"batched", "sending">>, <<"sending", "done">> }

Committed(p) == pc[p] = "done" /\ outcome[p] = "committed"

\* C21: overlapping runs write the stores wholesale and last writer wins: a
\* committed run's ledger is what it loaded plus its own postings, every
\* value a store holds is the whole ledger of one committed run, and when
\* neither of two committed runs knows all the other added, no store holds
\* the additions of both.
C21_LastWriterWins ==
    /\ \A p \in Runs :
          Committed(p) =>
              DOMAIN sent_jobs_data[p] =
                  DOMAIN loaded[p] \cup Links(new_jobs_to_send[p])
    /\ remote \in {Absent} \cup
          { Stored(sent_jobs_data[p]) : p \in { q \in Runs : Committed(q) } }
    /\ local \in {Absent, Corrupt} \cup
          { Stored(sent_jobs_data[p]) : p \in { q \in Runs : Committed(q) } }
    /\ (/\ \A p \in Runs : Committed(p)
        /\ \A p, q \in Runs :
              p # q => ~(Links(new_jobs_to_send[p])
                            \subseteq DOMAIN sent_jobs_data[q]))
       => \A store \in {remote, local} :
             \E p \in Runs :
                ~(Links(new_jobs_to_send[p])
                     \subseteq DOMAIN PersistedLedger(store))

\* both runs loaded the same ledger from the stores as they were before
\* either commit, both sent the posting with link L2, both committed with a
\* successful save, and the entry for L1 that run 1 added is in no store
C21_Witness ==
    /\ \A p \in Runs : Committed(p) /\ saveResult[p] = "ok"
    /\ loaded[1] = loaded[2]
    /\ \A p \in Runs : remote0[p] = Absent /\ local0[p] = Absent
    /\ \A p \in Runs :
          /\ "L2" \in Links(new_jobs_to_send[p])
          /\ \A i \in DOMAIN sendLog[p] : sendLog[p][i][2]
          /\ Len(sendLog[p]) = Len(messages[p])
    /\ "L1" \in DOMAIN sent_jobs_data[1]
    /\ "L1" \notin DOMAIN PersistedLedger(remote)
    /\ "L1" \notin DOMAIN PersistedLedger(local)
    /\ "L2" \in DOMAIN PersistedLedger(remote)


\* C22: in the single-source entry point the links of a run's new postings
\* are appended to sent_jobs.txt only after the send was confirmed: when the
\* message did not reach the channel (the send failed or the credentials are
\* missing) the file is as it was when the run started.
C22_SavedOnlyAfterConfirmedSend ==
    (pc = "done" /\ sendLog # <<>> /\ ~sendLog[1][2]) => local = local0

====
